---- MODULE Spec2Model ----
(***************************************************************************)
(* Model of scripts/extract_changelog.py: main() extracts the body of one  *)
(* version section from CHANGELOG.md.                                      *)
(*                                                                         *)
(* Text is modelled character by character: a string is a sequence of      *)
(* one-character strings, a list of lines is a sequence of such strings.   *)
(* Python indexes from 0, the model from 1; "start is None" is start = 0.  *)
(***************************************************************************)
EXTENDS Integers, Sequences, FiniteSets, TLC

VARIABLES
    argv,          \* sys.argv: <<program name, arguments ...>>
    readable,      \* whether CHANGELOG.md can be read and decoded
    changelog,     \* content of CHANGELOG.md, a string
    pc,            \* position of main()
    version,       \* local: version
    text,          \* local: text (list of lines)
    start,         \* local: start (1-based, 0 = None)
    end,           \* local: end (1-based index of the boundary line)
    body_lines,    \* local: body_lines
    stdout,        \* sequence of the strings written to sys.stdout
    stderr,        \* sequence of the diagnostics printed to sys.stderr
    ret,           \* return value of main(): NoRet while running
    raised,        \* TRUE when read_text raised and nothing caught it
    reads,         \* number of times the document was opened
    run,           \* number of the current invocation
    prev_stdout,   \* stdout of the previous invocation
    prev_ret       \* return value of the previous invocation

vars == <<argv, readable, changelog, pc, version, text, start, end,
          body_lines, stdout, stderr, ret, raised, reads,
          run, prev_stdout, prev_ret>>

locals == <<version, text, start, end, body_lines>>
inputs == <<argv, readable, changelog>>
history == <<run, prev_stdout, prev_ret>>

-----------------------------------------------------------------------------
(* Bounds *)

MaxLines == 5          \* lines of a document, section specification
MaxMatchLines == 2     \* lines of a document, heading specification
MaxRerunLines == 3     \* lines of a document, two-invocation specification
MaxRuns == 2           \* invocations in the two-invocation specification
MaxVariantLines == 4   \* lines of a document, variant specification
MaxTail == 1           \* lines of a replacement tail (DocumentVariants)

NoRet == 0 - 1
NoStart == 0

-----------------------------------------------------------------------------
(* Characters and strings *)

\* str.isspace() / regex \s on the characters that occur
Whitespace == {" ", "\t", "\n", "\r"}

\* line boundaries of str.splitlines() on the characters that occur
LineBreaks == {"\n", "\r"}

IsSpace(c) == c \in Whitespace

RECURSIVE LStrip(_)
LStrip(s) ==
    IF s # <<>> /\ IsSpace(Head(s)) THEN LStrip(Tail(s)) ELSE s

RECURSIVE RStrip(_)
RStrip(s) ==
    IF s # <<>> /\ IsSpace(s[Len(s)])
    THEN RStrip(SubSeq(s, 1, Len(s) - 1))
    ELSE s

\* str.strip()
Strip(s) == RStrip(LStrip(s))

\* str.startswith(prefix)
StartsWith(s, prefix) ==
    /\ Len(s) >= Len(prefix)
    /\ SubSeq(s, 1, Len(prefix)) = prefix

\* str.splitlines(): break at every line boundary, "\r\n" counting as one,
\* and no empty last line after a final boundary
RECURSIVE SplitAcc(_, _, _)
SplitAcc(s, cur, acc) ==
    IF s = <<>>
    THEN IF cur = <<>> THEN acc ELSE Append(acc, cur)
    ELSE IF Head(s) = "\r" /\ Len(s) >= 2 /\ s[2] = "\n"
    THEN SplitAcc(Tail(Tail(s)), <<>>, Append(acc, cur))
    ELSE IF Head(s) \in LineBreaks
    THEN SplitAcc(Tail(s), <<>>, Append(acc, cur))
    ELSE SplitAcc(Tail(s), Append(cur, Head(s)), acc)

SplitLines(s) == SplitAcc(s, <<>>, <<>>)

\* "\n".join(lines)
RECURSIVE Join(_)
Join(lines) ==
    IF lines = <<>> THEN <<>>
    ELSE IF Len(lines) = 1 THEN lines[1]
    ELSE lines[1] \o <<"\n">> \o Join(Tail(lines))

-----------------------------------------------------------------------------
(* The heading pattern  rf"^## \[{re.escape(version)}\](?:\s|$)"  *)

\* characters re.escape() puts a backslash in front of
ReSpecial == {"(", ")", "[", "]", "{", "}", "?", "*", "+", "-", "|", "^",
              "$", "\\", ".", "&", "~", "#", " ", "\t", "\n", "\r"}

\* faulty variant: the version is interpolated into the pattern without re.escape
ReEscapeNone(s) == s

RECURSIVE ReEscape(_)
ReEscape(s) ==
    IF s = <<>> THEN <<>>
    ELSE (IF Head(s) \in ReSpecial THEN <<"\\", Head(s)>> ELSE <<Head(s)>>)
         \o ReEscape(Tail(s))

\* the pattern text after interpolation, without the leading ^ and the
\* trailing group (?:\s|$)
HeaderPattern(v) ==
    <<"#", "#", " ", "\\", "[">> \o ReEscape(v) \o <<"\\", "]">>

\* The set of lengths n such that pattern p matches the first n characters
\* of s. A backslash makes the next character literal, an unescaped "."
\* matches any character but a newline, any other character matches itself.
RECURSIVE MatchLens(_, _, _)
MatchLens(p, s, n) ==
    IF p = <<>> THEN {n}
    ELSE IF Head(p) = "\\" /\ Len(p) >= 2
    THEN IF Len(s) > n /\ s[n + 1] = p[2]
         THEN MatchLens(Tail(Tail(p)), s, n + 1) ELSE {}
    ELSE IF Head(p) = "."
    THEN IF Len(s) > n /\ s[n + 1] # "\n"
         THEN MatchLens(Tail(p), s, n + 1) ELSE {}
    ELSE IF Len(s) > n /\ s[n + 1] = Head(p)
         THEN MatchLens(Tail(p), s, n + 1) ELSE {}

\* faulty variant: the pattern without its trailing group
BoundaryAny(s, n) == TRUE

\* (?:\s|$) at position n of s: a whitespace character, or the end of the
\* string, or just before a newline that ends the string
BoundaryAt(s, n) ==
    \/ Len(s) > n /\ IsSpace(s[n + 1])
    \/ Len(s) = n
    \/ Len(s) = n + 1 /\ s[n + 1] = "\n"

\* header_re.match(line)
HeaderMatch(v, line) ==
    \E n \in MatchLens(HeaderPattern(v), line, 0) : BoundaryAt(line, n)

-----------------------------------------------------------------------------
(* The scans and the trimming of main() *)

\* faulty variant: the loop without its break, the last matching line wins
FindStartLast(lines, v) ==
    LET hits == {i \in 1..Len(lines) : HeaderMatch(v, lines[i])}
    IN IF hits = {} THEN NoStart
       ELSE CHOOSE i \in hits : \A j \in hits : i >= j

\* for i, line in enumerate(text): if header_re.match(line): start = i; break
FindStart(lines, v) ==
    LET hits == {i \in 1..Len(lines) : HeaderMatch(v, lines[i])}
    IN IF hits = {} THEN NoStart
       ELSE CHOOSE i \in hits : \A j \in hits : i <= j

SectionPrefix == <<"#", "#", " ", "[">>

\* faulty variant: end = len(text) - 1 when no later section begins
FindEndShort(lines, s) ==
    LET hits == {j \in (s + 1)..Len(lines) : StartsWith(lines[j], SectionPrefix)}
    IN IF hits = {} THEN Len(lines)
       ELSE CHOOSE j \in hits : \A k \in hits : j <= k

\* faulty variant: the section ends only at a line "## [" that also holds a "]"
FindEndClosed(lines, s) ==
    LET hits == {j \in (s + 1)..Len(lines) :
                    /\ StartsWith(lines[j], SectionPrefix)
                    /\ \E k \in 1..Len(lines[j]) : lines[j][k] = "]"}
    IN IF hits = {} THEN Len(lines) + 1
       ELSE CHOOSE j \in hits : \A k \in hits : j <= k

\* end = len(text); for j in range(start + 1, len(text)): ... end = j; break
FindEnd(lines, s) ==
    LET hits == {j \in (s + 1)..Len(lines) : StartsWith(lines[j], SectionPrefix)}
    IN IF hits = {} THEN Len(lines) + 1
       ELSE CHOOSE j \in hits : \A k \in hits : j <= k

\* text[start + 1 : end]
BodySlice(lines, s, e) == SubSeq(lines, s + 1, e - 1)

IsBlankLine(line) == Strip(line) = <<>>

RECURSIVE PopFront(_)
PopFront(lines) ==
    IF lines # <<>> /\ IsBlankLine(lines[1])
    THEN PopFront(Tail(lines)) ELSE lines

RECURSIVE PopBack(_)
PopBack(lines) ==
    IF lines # <<>> /\ IsBlankLine(lines[Len(lines)])
    THEN PopBack(SubSeq(lines, 1, Len(lines) - 1)) ELSE lines

\* faulty variant: every blank line is dropped, not only the leading and trailing
RECURSIVE DropBlankLines(_)
DropBlankLines(lines) ==
    IF lines = <<>> THEN <<>>
    ELSE IF IsBlankLine(lines[1]) THEN DropBlankLines(Tail(lines))
    ELSE <<lines[1]>> \o DropBlankLines(Tail(lines))

TrimBlankLines(lines) == PopBack(PopFront(lines))

\* faulty variant: the joined text without rstrip()
RenderNoRStrip(lines) == Join(lines) \o <<"\n">>

\* "\n".join(body_lines).rstrip() + "\n"
Render(lines) == RStrip(Join(lines)) \o <<"\n">>

\* main() from the compiled pattern to the written text, as one function of
\* the document's lines and the trimmed version; <<>> when nothing is written
ExtractOut(lines, v) ==
    LET s == FindStart(lines, v)
    IN IF s = NoStart THEN <<>>
       ELSE Render(TrimBlankLines(BodySlice(lines, s, FindEnd(lines, s))))

-----------------------------------------------------------------------------
(* Diagnostics *)

UsageMsg == [kind |-> "usage", version |-> <<>>]
EmptyMsg == [kind |-> "empty", version |-> <<>>]
NotFoundMsg(v) == [kind |-> "notfound", version |-> v]

-----------------------------------------------------------------------------
(* Inputs *)

Prog == <<"p">>

\* a file whose lines are the given ones, each ended by a newline
RECURSIVE Unlines(_)
Unlines(lines) ==
    IF lines = <<>> THEN <<>>
    ELSE lines[1] \o <<"\n">> \o Unlines(Tail(lines))

Docs(lineSet, n) == UNION {[1..k -> lineSet] : k \in 0..n}

\* section specification: two versions, blank and non-blank body lines
SectionLines ==
    { <<"#", "#", " ", "[", "1", "]">>,
      <<"#", "#", " ", "[", "2", "]", " ", "d">>,
      <<"#", "#", " ", "[">>,
      <<>>,
      <<" ">>,
      <<" ", "a", " ">> }

SectionArgvs ==
    { <<Prog>>,
      <<Prog, <<"1">>>>,
      <<Prog, <<" ", "2", "\t">>>>,
      <<Prog, <<"3">>>>,
      <<Prog, <<" ">>>>,
      <<Prog, <<" ">>, <<"2">>>> }

InitWith(argvs, docs) ==
    /\ argv \in argvs
    /\ \/ readable = FALSE /\ changelog = <<>>
       \/ readable = TRUE /\ changelog \in {Unlines(d) : d \in docs}
    /\ pc = "args"
    /\ version = <<>>
    /\ text = <<>>
    /\ start = NoStart
    /\ end = 0
    /\ body_lines = <<>>
    /\ stdout = <<>>
    /\ stderr = <<>>
    /\ ret = NoRet
    /\ raised = FALSE
    /\ reads = 0
    /\ run = 1
    /\ prev_stdout = <<>>
    /\ prev_ret = NoRet

Init == InitWith(SectionArgvs, Docs(SectionLines, MaxLines))

\* heading specification: headings that match "1.2.3", near misses of it,
\* and a body line
MatchLines ==
    { <<"#", "#", " ", "[", "1", ".", "2", ".", "3", "]">>,
      <<"#", "#", " ", "[", "1", ".", "2", ".", "3", "]", " ", "-", " ", "d">>,
      <<"#", "#", " ", "[", "1", ".", "2", ".", "3", "]", "\t">>,
      <<"#", "#", " ", "[", "1", ".", "2", ".", "3", "]", "x">>,
      <<"#", "#", " ", "[", "1", ".", "2", ".", "3", "0", "]">>,
      <<"#", "#", " ", "[", "1", "x", "2", "y", "3", "]">>,
      <<"#", "#", " ", "[", "1", ".", "2", ".", "3">>,
      <<"#", "#", "[", "1", ".", "2", ".", "3", "]">>,
      <<" ", "#", "#", " ", "[", "1", ".", "2", ".", "3", "]">>,
      <<"#", "#", " ", "[", " ", "1", ".", "2", ".", "3", "]">>,
      <<"#", "#", " ", "[", "]">>,
      <<"a">> }

MatchArgvs ==
    { <<Prog>>,
      <<Prog, <<"1", ".", "2", ".", "3">>>>,
      <<Prog, <<" ", "1", ".", "2", ".", "3", "\t">>>>,
      <<Prog, <<"1", ".", "2", ".", "3", "0">>>>,
      <<Prog, <<"1", "x", "2", "y", "3">>>>,
      <<Prog, <<"1", " ", "2">>>>,
      <<Prog, <<>>>>,
      <<Prog, <<" ">>>>,
      <<Prog, <<"\t", " ">>>>,
      <<Prog, <<"1", ".", "2", ".", "3">>, <<"a">>>> }

InitMatch == InitWith(MatchArgvs, Docs(MatchLines, MaxMatchLines))

InitRerun == InitWith(SectionArgvs, Docs(SectionLines, MaxRerunLines))

InitVariants == InitWith(SectionArgvs, Docs(SectionLines, MaxVariantLines))

-----------------------------------------------------------------------------
(* main() *)

\* if len(sys.argv) != 2: print usage; return 2
UsageError ==
    /\ pc = "args"
    /\ Len(argv) # 2
    /\ stderr' = Append(stderr, UsageMsg)
    /\ ret' = 2
    /\ pc' = "done"
    /\ UNCHANGED <<inputs, locals, stdout, raised, reads, history>>

\* faulty variant: version = sys.argv[1], not stripped
ParseVersionNoStrip ==
    /\ pc = "args"
    /\ Len(argv) = 2
    /\ version' = argv[2]
    /\ pc' = "version"
    /\ UNCHANGED <<inputs, text, start, end, body_lines, stdout, stderr,
                   ret, raised, reads, history>>

\* version = sys.argv[1].strip()
ParseVersion ==
    /\ pc = "args"
    /\ Len(argv) = 2
    /\ version' = Strip(argv[2])
    /\ pc' = "version"
    /\ UNCHANGED <<inputs, text, start, end, body_lines, stdout, stderr,
                   ret, raised, reads, history>>

\* if not version: print "Version cannot be empty"; return 2
EmptyVersion ==
    /\ pc = "version"
    /\ version = <<>>
    /\ stderr' = Append(stderr, EmptyMsg)
    /\ ret' = 2
    /\ pc' = "done"
    /\ UNCHANGED <<inputs, locals, stdout, raised, reads, history>>

\* faulty variant: the file is opened for writing as well and left truncated
ReadTextTruncating ==
    /\ pc = "version"
    /\ version # <<>>
    /\ readable
    /\ reads' = reads + 1
    /\ text' = SplitLines(changelog)
    /\ changelog' = <<>>
    /\ pc' = "search"
    /\ UNCHANGED <<argv, readable, version, start, end, body_lines, stdout,
                   stderr, ret, raised, history>>

\* text = path.read_text(encoding="utf-8").splitlines()
ReadText ==
    /\ pc = "version"
    /\ version # <<>>
    /\ readable
    /\ reads' = reads + 1
    /\ text' = SplitLines(changelog)
    /\ pc' = "search"
    /\ UNCHANGED <<inputs, version, start, end, body_lines, stdout, stderr,
                   ret, raised, history>>

\* read_text raises (missing, unreadable or undecodable file); main() has no
\* handler, the exception leaves it
ReadTextRaises ==
    /\ pc = "version"
    /\ version # <<>>
    /\ ~readable
    /\ reads' = reads + 1
    /\ raised' = TRUE
    /\ pc' = "done"
    /\ UNCHANGED <<inputs, locals, stdout, stderr, ret, history>>

\* the first loop found a heading
HeadingFound ==
    /\ pc = "search"
    /\ FindStart(text, version) # NoStart
    /\ start' = FindStart(text, version)
    /\ pc' = "bound"
    /\ UNCHANGED <<inputs, version, text, end, body_lines, stdout, stderr,
                   ret, raised, reads, history>>

\* faulty variant: the diagnostic is printed without file=sys.stderr
NotFoundOnStdout ==
    /\ pc = "search"
    /\ FindStart(text, version) = NoStart
    /\ stdout' = Append(stdout, <<"?">>)
    /\ ret' = 1
    /\ pc' = "done"
    /\ UNCHANGED <<inputs, locals, stderr, raised, reads, history>>

\* if start is None: print "Could not find ..."; return 1
NotFound ==
    /\ pc = "search"
    /\ FindStart(text, version) = NoStart
    /\ stderr' = Append(stderr, NotFoundMsg(version))
    /\ ret' = 1
    /\ pc' = "done"
    /\ UNCHANGED <<inputs, locals, stdout, raised, reads, history>>

\* the second loop and body_lines = text[start + 1 : end]
FindBoundary ==
    /\ pc = "bound"
    /\ end' = FindEnd(text, start)
    /\ body_lines' = BodySlice(text, start, FindEnd(text, start))
    /\ pc' = "trim"
    /\ UNCHANGED <<inputs, version, text, start, stdout, stderr, ret,
                   raised, reads, history>>

\* the two while loops popping blank lines
TrimBody ==
    /\ pc = "trim"
    /\ body_lines' = TrimBlankLines(body_lines)
    /\ pc' = "write"
    /\ UNCHANGED <<inputs, version, text, start, end, stdout, stderr, ret,
                   raised, reads, history>>

\* out = ...; sys.stdout.write(out); return 0
WriteOut ==
    /\ pc = "write"
    /\ stdout' = Append(stdout, Render(body_lines))
    /\ ret' = 0
    /\ pc' = "done"
    /\ UNCHANGED <<inputs, locals, stderr, raised, reads, history>>

Next ==
    \/ UsageError
    \/ ParseVersion
    \/ EmptyVersion
    \/ ReadText
    \/ ReadTextRaises
    \/ HeadingFound
    \/ NotFound
    \/ FindBoundary
    \/ TrimBody
    \/ WriteOut

\* the script is invoked again on the same arguments and the same file:
\* raise SystemExit(main()) of a new process, whose locals and streams are new
Rerun ==
    /\ pc = "done"
    /\ run < MaxRuns
    /\ run' = run + 1
    /\ prev_stdout' = stdout
    /\ prev_ret' = ret
    /\ pc' = "args"
    /\ version' = <<>>
    /\ text' = <<>>
    /\ start' = NoStart
    /\ end' = 0
    /\ body_lines' = <<>>
    /\ stdout' = <<>>
    /\ stderr' = <<>>
    /\ ret' = NoRet
    /\ raised' = FALSE
    /\ reads' = 0
    /\ UNCHANGED inputs

NextRerun ==
    \/ Next
    \/ Rerun

Spec == Init /\ [][Next]_vars

SpecMatch == InitMatch /\ [][Next]_vars

SpecRerun == InitRerun /\ [][NextRerun]_vars

SpecVariants == InitVariants /\ [][Next]_vars

-----------------------------------------------------------------------------
(* Vocabulary of the properties, stated on the document's lines without   *)
(* the operators main() is modelled with                                  *)

MinOf(S) == CHOOSE x \in S : \A y \in S : x <= y
MaxOf(S) == CHOOSE x \in S : \A y \in S : x >= y

Blank(line) == \A i \in 1..Len(line) : line[i] \in {" ", "\t", "\n", "\r"}

HasPrefix(line, p) ==
    /\ Len(line) >= Len(p)
    /\ \A i \in 1..Len(p) : line[i] = p[i]

Marker == <<"#", "#", " ", "[">>

\* the identifier without its surrounding whitespace
IdentCore(raw) ==
    LET solid == {i \in 1..Len(raw) : raw[i] \notin {" ", "\t", "\n", "\r"}}
    IN IF solid = {} THEN <<>>
       ELSE [k \in 1..(MaxOf(solid) - MinOf(solid) + 1) |->
                raw[MinOf(solid) + k - 1]]

\* the line without its trailing whitespace
RightTrimmed(line) ==
    LET solid == {i \in 1..Len(line) : line[i] \notin {" ", "\t", "\n", "\r"}}
    IN IF solid = {} THEN <<>>
       ELSE [k \in 1..MaxOf(solid) |-> line[k]]

IsHeadingFor(id, line) ==
    LET h == Marker \o id \o <<"]">>
    IN /\ HasPrefix(line, h)
       /\ \/ Len(line) = Len(h)
          \/ line[Len(h) + 1] \in {" ", "\t", "\n", "\r"}

Ident == IdentCore(argv[2])

HeadingIdx == {i \in 1..Len(text) : IsHeadingFor(Ident, text[i])}

\* index of the first heading of the identifier
FirstHeading == MinOf(HeadingIdx)

MarkerIdx == {j \in (FirstHeading + 1)..Len(text) : HasPrefix(text[j], Marker)}

\* index of the line that ends the section, one past the end when there is
\* no such line
SectionEnd == IF MarkerIdx = {} THEN Len(text) + 1 ELSE MinOf(MarkerIdx)

SolidIdx == {i \in (FirstHeading + 1)..(SectionEnd - 1) : ~Blank(text[i])}

\* the section's lines without the leading and trailing blank ones
KeptLines ==
    IF SolidIdx = {} THEN <<>>
    ELSE [k \in 1..(MaxOf(SolidIdx) - MinOf(SolidIdx) + 1) |->
             text[MinOf(SolidIdx) + k - 1]]

LastTrimmed(lines) ==
    IF lines = <<>> THEN <<>>
    ELSE [k \in 1..Len(lines) |->
             IF k = Len(lines) THEN RightTrimmed(lines[k]) ELSE lines[k]]

\* the text that carries the given lines: every line followed by one
\* newline, and a lone newline for no lines
TextOfLines(lines) == IF lines = <<>> THEN <<"\n">> ELSE Unlines(lines)

Succeeded == pc = "done" /\ ret = 0

-----------------------------------------------------------------------------
(* C1, C2: the extracted section *)

\* C1 as stated: with a later "## [" line, a successful extraction writes
\* exactly the lines between the first heading of V and that line, minus the
\* leading and trailing blank lines, every kept line unchanged.
C1_AsStated ==
    (Succeeded /\ MarkerIdx # {}) => stdout = <<TextOfLines(KeptLines)>>

\* C1 amended: the same, except that the last kept line is written without
\* its trailing whitespace.
C1_SectionBetweenHeadings ==
    (Succeeded /\ MarkerIdx # {})
        => stdout = <<TextOfLines(LastTrimmed(KeptLines))>>

\* a section followed by a marker line, with a blank line between two kept
\* lines, the last of which ends in whitespace
C1_Witness ==
    /\ Succeeded
    /\ MarkerIdx # {}
    /\ Len(KeptLines) = 3
    /\ Blank(KeptLines[2])
    /\ RightTrimmed(KeptLines[3]) # KeptLines[3]

\* C2 as stated: with no later "## [" line, the extraction writes everything
\* after the heading up to the end of the document, minus the leading and
\* trailing blank lines.
C2_AsStated ==
    (Succeeded /\ MarkerIdx = {}) => stdout = <<TextOfLines(KeptLines)>>

\* C2 amended: the same, except that the last kept line is written without
\* its trailing whitespace.
C2_SectionToEnd ==
    (Succeeded /\ MarkerIdx = {})
        => stdout = <<TextOfLines(LastTrimmed(KeptLines))>>

\* the heading is followed by lines up to the end of the document, blank
\* ones before and after the kept ones
C2_Witness ==
    /\ Succeeded
    /\ MarkerIdx = {}
    /\ Len(KeptLines) >= 2
    /\ Blank(text[FirstHeading + 1])
    /\ Blank(text[Len(text)])

-----------------------------------------------------------------------------
(* C6: the shape of the written text *)

\* C6: a successful extraction writes a text that ends with a newline, the
\* character before that newline (if any) is not whitespace, and a section
\* with no line or only blank lines is written as a lone newline.
C6_OutputShape ==
    Succeeded =>
        /\ Len(stdout) = 1
        /\ LET out == stdout[1]
           IN /\ Len(out) >= 1
              /\ out[Len(out)] = "\n"
              /\ Len(out) >= 2 => out[Len(out) - 1] \notin {" ", "\t", "\n", "\r"}
              /\ SolidIdx = {} => out = <<"\n">>
              /\ SolidIdx # {} => Len(out) >= 2

\* a section of blank lines only
C6_Witness ==
    /\ Succeeded
    /\ SectionEnd - FirstHeading - 1 >= 2
    /\ SolidIdx = {}
    /\ stdout = << <<"\n">> >>

-----------------------------------------------------------------------------
(* C10: what the written lines are *)

\* positions of the written text at which a line begins
LineStarts(out) == {k \in 1..Len(out) : k = 1 \/ out[k - 1] = "\n"}

\* C10: on success no written line begins with "## [", the written lines are
\* consecutive lines of the document between the first heading and the next
\* line beginning with "## [" (the last one possibly without its trailing
\* whitespace), so nothing from that line on is written.
C10_NoMarkerInOutput ==
    Succeeded =>
        /\ Len(stdout) = 1
        /\ \A k \in LineStarts(stdout[1]) :
              ~HasPrefix(SubSeq(stdout[1], k, Len(stdout[1])), Marker)
        /\ \E lo \in (FirstHeading + 1)..SectionEnd :
           \E hi \in (lo - 1)..(SectionEnd - 1) :
              \/ stdout[1] = TextOfLines(SubSeq(text, lo, hi))
              \/ stdout[1] = TextOfLines(LastTrimmed(SubSeq(text, lo, hi)))

\* the section is ended by a line that begins with "## [" without being a
\* version heading, and text follows that line
C10_Witness ==
    /\ Succeeded
    /\ MarkerIdx # {}
    /\ text[SectionEnd] = Marker
    /\ SolidIdx # {}
    /\ Len(text) > SectionEnd
    /\ ~Blank(text[Len(text)])

-----------------------------------------------------------------------------
(* C3: which lines are the target heading *)

Scanned == pc \in {"search", "bound", "trim", "write"} \/ (pc = "done" /\ reads > 0 /\ ~raised)

\* C3: once the document is read, a line is accepted by the heading pattern
\* if and only if it starts with "## [" + the trimmed identifier + "]" and
\* then ends or continues with a whitespace character; the heading the
\* search settles on is the first such line.
C3_HeadingMatch ==
    Scanned =>
        /\ version = Ident
        /\ \A i \in 1..Len(text) :
              HeaderMatch(version, text[i]) <=> IsHeadingFor(Ident, text[i])
        /\ (pc \in {"bound", "trim", "write"} \/ Succeeded)
              => (HeadingIdx # {} /\ start = FirstHeading)
        /\ (pc = "done" /\ ret = 1) => HeadingIdx = {}

\* identifier " 1.2.3<tab>": the near miss "## [1x2y3]" is passed over and
\* the heading on the second line is the one found
C3_Witness ==
    /\ Succeeded
    /\ argv[2] = <<" ", "1", ".", "2", ".", "3", "\t">>
    /\ Len(text) = 2
    /\ text[1] = <<"#", "#", " ", "[", "1", "x", "2", "y", "3", "]">>
    /\ start = 2

-----------------------------------------------------------------------------
(* C4: no heading for the identifier *)

ValidRun == Len(argv) = 2 /\ ~Blank(argv[2]) /\ readable

\* C4: a run with a non-blank identifier on a readable document that has no
\* heading for it ends with return value 1, one diagnostic naming the
\* version and nothing on standard output; return value 0 and output occur
\* only when the document has a heading for the identifier.
C4_NotFound ==
    /\ (pc = "done" /\ ValidRun /\ HeadingIdx = {})
          => /\ ret = 1
             /\ stdout = <<>>
             /\ stderr = <<[kind |-> "notfound", version |-> Ident]>>
    /\ (ret = 0 \/ stdout # <<>>)
          => (Len(argv) = 2 /\ text # <<>> /\ HeadingIdx # {})

\* identifier "1.2.3" on a document whose only lines are near misses
C4_Witness ==
    /\ pc = "done"
    /\ ret = 1
    /\ argv[2] = <<"1", ".", "2", ".", "3">>
    /\ Len(text) = 2
    /\ text[1] = <<"#", "#", " ", "[", "1", ".", "2", ".", "3", "]", "x">>
    /\ text[2] = <<"#", "#", " ", "[", "1", ".", "2", ".", "3", "0", "]">>

-----------------------------------------------------------------------------
(* C5: the blank identifier *)

\* C5: when the one argument is empty or whitespace only, the document is
\* never opened and nothing is written to standard output at any point of
\* the run, and the run ends with return value 2, whatever the document
\* holds and also when it cannot be read.
C5_BlankIdentifier ==
    (Len(argv) = 2 /\ Blank(argv[2])) =>
        /\ reads = 0
        /\ text = <<>>
        /\ stdout = <<>>
        /\ ~raised
        /\ pc \in {"args", "version", "done"}
        /\ pc = "done" => (ret = 2 /\ stderr = <<[kind |-> "empty", version |-> <<>>]>>)

\* a whitespace-only identifier and a document that cannot be read
C5_Witness ==
    /\ pc = "done"
    /\ Len(argv) = 2
    /\ argv[2] = <<"\t", " ">>
    /\ ~readable
    /\ ret = 2

-----------------------------------------------------------------------------
(* C7: the first heading wins *)

\* the documents that agree with text before the line ending the section
DocumentVariantsAsStated ==
    {SubSeq(text, 1, SectionEnd - 1) \o tail :
        tail \in Docs(SectionLines, MaxTail)}

\* the documents that agree with text before the line ending the section
\* and have a line beginning with "## [" in that line's place
DocumentVariants ==
    {SubSeq(text, 1, SectionEnd - 1) \o <<m>> \o tail :
        m \in {l \in SectionLines : HasPrefix(l, Marker)},
        tail \in Docs(SectionLines, MaxTail)}

\* C7 as stated: the section comes from the first heading of the identifier,
\* and replacing the document from the line that ends the section onwards
\* by anything leaves the output as it is.
C7_AsStated ==
    (Succeeded /\ MarkerIdx # {}) =>
        /\ start = FirstHeading
        /\ \A alt \in DocumentVariantsAsStated :
              <<ExtractOut(alt, version)>> = stdout

\* C7 amended: the section comes from the first heading of the identifier,
\* and replacing the document after the line that ends the section by
\* anything, and that line by any line beginning with "## [", leaves the
\* output as it is.
C7_FirstHeadingWins ==
    (Succeeded /\ MarkerIdx # {}) =>
        /\ start = FirstHeading
        /\ end = SectionEnd
        /\ \A alt \in DocumentVariants :
              <<ExtractOut(alt, version)>> = stdout

\* the identifier has two headings, each with a body of its own
C7_Witness ==
    /\ Succeeded
    /\ Cardinality(HeadingIdx) >= 2
    /\ SectionEnd \in HeadingIdx
    /\ SolidIdx # {}
    /\ Len(text) > SectionEnd
    /\ ~Blank(text[Len(text)])

-----------------------------------------------------------------------------
(* C8: determinism *)

-----------------------------------------------------------------------------
(* C9: order of the checks and outcomes *)

\* C9: the argument count is checked first, the identifier second, the
\* document is read third and searched last; a run that fails writes nothing
\* to standard output, standard output is written once and only by a run
\* that returns 0, and a finished run has exactly one of the outcomes
\* return 0, return 1, return 2 and uncaught read failure.
C9_OrderAndOutcomes ==
    /\ Len(stdout) <= 1
    /\ stdout # <<>> => ret = 0
    /\ reads <= 1
    /\ pc = "done" =>
        /\ \/ ret \in {0, 1, 2} /\ ~raised
           \/ ret = NoRet /\ raised
        /\ ret = 0 <=> stdout # <<>>
        /\ Len(argv) # 2 =>
              (ret = 2 /\ reads = 0 /\ stderr = <<[kind |-> "usage", version |-> <<>>]>>)
        /\ (Len(argv) = 2 /\ Blank(argv[2])) =>
              (ret = 2 /\ reads = 0 /\ stderr = <<[kind |-> "empty", version |-> <<>>]>>)
        /\ (Len(argv) = 2 /\ ~Blank(argv[2]) /\ ~readable) =>
              (raised /\ reads = 1 /\ stderr = <<>>)
        /\ (Len(argv) = 2 /\ ~Blank(argv[2]) /\ readable) =>
              (ret \in {0, 1} /\ reads = 1)
        /\ ret = 1 => Len(stderr) = 1 /\ stderr[1].kind = "notfound"
        /\ ret = 0 => stderr = <<>>

\* two arguments and a document that cannot be read: the count decides
C9_Witness ==
    /\ pc = "done"
    /\ Len(argv) = 3
    /\ ~readable
    /\ ret = 2
    /\ reads = 0

====
